---- MODULE Spec2Model ----
(***************************************************************************)
(* KitchenMaster: the conversation-state workflow engine.                  *)
(*                                                                         *)
(* One conversation of one user is modelled.  A turn is the HTTP chat      *)
(* handler: it reads the cached agent state, runs KitchenDesignAgent.run   *)
(* (the compiled graph analyze -> clarify|generate|edit|respond ->         *)
(* format_output) and writes the returned state back to the cache.         *)
(*                                                                         *)
(* Encoding.  A Python Optional is a sequence of length at most one: None  *)
(* is << >> and the value v is << v >>.  A dict is a function whose domain *)
(* is its key set.  Lengths are whole centimetres (3.0 m is 300).  A user  *)
(* utterance is identified by the number of the turn that submits it.      *)
(* JSON encoding of the cached state followed by decoding maps every value *)
(* of this encoding (numbers, strings, lists, string-keyed dicts, null) to *)
(* itself, so the cache holds the state record as returned.                *)
(***************************************************************************)
EXTENDS Integers, Sequences, FiniteSets, TLC

\* Number of chat turns explored.
MaxTurns == 2

None == << >>
Some(v) == << v >>

EmptyDict == [c \in {} |-> ""]

Categories == {"cabinets", "countertop", "backsplash"}

\* The keys of the classifier record that carry design parameters.
ParamKeys == {"linear_meters", "shape", "style", "materials", "colors", "budget"}
ScalarKeys == {"linear_meters", "shape", "style", "colors", "budget"}
AnalysisKeys == ParamKeys \cup {"action", "questions_to_ask"}

\* Python truthiness of an Optional value, by the type stored under key k.
Truthy(k, o) ==
    /\ o # None
    /\ CASE k = "linear_meters" -> o[1] # 0
         [] k \in {"shape", "style", "budget", "action"} -> o[1] # ""
         [] k \in {"colors", "questions_to_ask"} -> Len(o[1]) # 0
         [] k = "materials" -> DOMAIN o[1] # {}
         [] k = "current_image" -> o[1] # 0

\* Truthiness of one value of the classifier's materials mapping.
TruthyStr(o) == o # None /\ o[1] # ""

----------------------------------------------------------------------------
(* Inputs: what the Reasoning Service and the Image Service answer.        *)

\* The values the sample classifier records give for one field: for every
\* field a null, a non-null value Python treats as false where the type has
\* one, and values it treats as true.
FieldValues(k) ==
    CASE k = "linear_meters" -> {Some(0), Some(300)}
      [] k = "shape" -> {Some("L"), Some("U")}
      [] k = "style" -> {Some("rustic")}
      [] k = "materials" ->
            { Some([c \in {"cabinets"} |-> Some("oak")]),
              Some([c \in Categories |->
                      IF c = "cabinets" THEN None
                      ELSE IF c = "countertop" THEN Some("granite")
                      ELSE Some("")]),
              Some([c \in Categories |->
                      IF c = "cabinets" THEN Some("pine")
                      ELSE IF c = "countertop" THEN Some("marble")
                      ELSE Some("tile")]) }
      [] k = "colors" -> {Some(<< >>), Some(<<"white">>)}
      [] k = "budget" -> {Some("high")}
      [] k = "questions_to_ask" -> {Some(<< >>), Some(<< <<"q1">>, <<"q2">> >>)}

ActionValues ==
    {None, Some("generate"), Some("edit"), Some("question"), Some("clarification")}

\* The record that gives no field a value.
Blank ==
    [ action |-> None, linear_meters |-> None, shape |-> None,
      style |-> None, materials |-> None, colors |-> None,
      budget |-> None, questions_to_ask |-> None ]

\* The record of an utterance that states every parameter.
AllGiven ==
    [ action |-> None, linear_meters |-> Some(300), shape |-> Some("U"),
      style |-> Some("rustic"),
      materials |-> Some([c \in Categories |->
                            IF c = "cabinets" THEN Some("pine")
                            ELSE IF c = "countertop" THEN Some("marble")
                            ELSE Some("tile")]),
      colors |-> Some(<<"white">>), budget |-> Some("high"),
      questions_to_ask |-> None ]

\* The record that gives every parameter an empty (non-null) value.
AllEmpty ==
    [ action |-> None, linear_meters |-> Some(0), shape |-> Some(""),
      style |-> Some(""), materials |-> Some([c \in {} |-> None]),
      colors |-> Some(<< >>), budget |-> Some(""),
      questions_to_ask |-> Some(<< >>) ]

\* The parameter contents of the sample records: nothing, one field, every
\* field.
Extractions ==
    {Blank, AllGiven, AllEmpty}
    \cup UNION { {[Blank EXCEPT ![k] = v] : v \in FieldValues(k)} :
                    k \in AnalysisKeys \ {"action"} }

\* The keys a classifier record gives a non-null value for.
Mentioned(a) == {k \in AnalysisKeys : a[k] # None}

\* A decoded record: its fields and the set of keys the JSON object has.
MkAnalysis(a, has) ==
    [ has |-> has, action |-> a.action, linear_meters |-> a.linear_meters,
      shape |-> a.shape, style |-> a.style, materials |-> a.materials,
      colors |-> a.colors, budget |-> a.budget,
      questions_to_ask |-> a.questions_to_ask ]

\* The decoded classifier records.  A record either writes every field it
\* has nothing for as null (as the prompt asks) or omits those fields.
Analyses ==
    { MkAnalysis([e EXCEPT !.action = act],
                 IF nulls THEN AnalysisKeys
                 ELSE Mentioned([e EXCEPT !.action = act])) :
        e \in Extractions, act \in ActionValues, nulls \in BOOLEAN }

\* analysis.get(k)
Get(a, k) == IF k \in a.has THEN a[k] ELSE None

\* Variant of Fallback: the record asks for a clarification.
FallbackClarifies ==
    MkAnalysis([Blank EXCEPT !.action = Some("clarification"),
                             !.questions_to_ask = Some(<< <<"details?">> >>)],
               {"action", "questions_to_ask"})

\* The record analyze_request returns when it decodes no JSON.
Fallback ==
    MkAnalysis([Blank EXCEPT !.action = Some("question"),
                             !.questions_to_ask = Some(<< <<"details?">> >>)],
               {"action", "questions_to_ask"})

\* What the Image Service returns: {success, images, error}.
ImageResults ==
    { [success |-> FALSE, images |-> << >>, error |-> Some("quota")],
      [success |-> TRUE,  images |-> << >>, error |-> None],
      [success |-> TRUE,  images |-> <<1>>, error |-> None],
      [success |-> TRUE,  images |-> <<2, 1>>, error |-> None] }

----------------------------------------------------------------------------
(* The classifier: GeminiReasoner.analyze_request.                         *)

\* The text of a Reasoning Service reply is a sequence of tokens: the braces
\* "{" and "}", "kv" (a member with a scalar value, as in "shape": "L",
\* with its separator), "key" (a member name and its colon, to be followed
\* by an object, as in "materials":) and "txt" (any other text).
Tokens == {"{", "}", "kv", "key", "txt"}

\* Longest reply text explored, in tokens.
MaxReplyLen == 4

Replies == UNION {[1..n -> Tokens] : n \in 0..MaxReplyLen}

\* str.find: the position of the first occurrence, 0 when there is none
\* (Python's -1).
Find(text, tok) ==
    IF \E i \in 1..Len(text) : text[i] = tok
    THEN CHOOSE i \in 1..Len(text) :
            text[i] = tok /\ \A j \in 1..(i - 1) : text[j] # tok
    ELSE 0

\* str.rfind: the position of the last occurrence, 0 when there is none.
RFind(text, tok) ==
    IF \E i \in 1..Len(text) : text[i] = tok
    THEN CHOOSE i \in 1..Len(text) :
            text[i] = tok /\ \A j \in (i + 1)..Len(text) : text[j] # tok
    ELSE 0

\* The nesting depth after the first i tokens.
Depth(text, i) ==
    Cardinality({j \in 1..i : text[j] = "{"})
    - Cardinality({j \in 1..i : text[j] = "}"})

\* The position of the brace closing the one opened at position i, 0 when
\* it is never closed.
Closing(text, i) ==
    LET ends == {j \in (i + 1)..Len(text) :
                    text[j] = "}" /\ Depth(text, j) = Depth(text, i) - 1}
    IN  IF ends = {} THEN 0
        ELSE CHOOSE j \in ends : \A k \in ends : j <= k

\* The JSON decoder's scan: text from position i on completes one object,
\* depth braces being open and afterKey telling that a member name waits
\* for its object.  Anything after the object is closed is extra data.
RECURSIVE Scan(_, _, _, _)
Scan(text, i, depth, afterKey) ==
    IF i > Len(text) THEN depth = 0 /\ ~afterKey /\ Len(text) > 0
    ELSE IF depth = 0 THEN i = 1 /\ text[1] = "{" /\ Scan(text, 2, 1, FALSE)
    ELSE IF afterKey THEN text[i] = "{" /\ Scan(text, i + 1, depth + 1, FALSE)
    ELSE CASE text[i] = "kv"  -> Scan(text, i + 1, depth, FALSE)
           [] text[i] = "key" -> Scan(text, i + 1, depth, TRUE)
           [] text[i] = "}"   -> Scan(text, i + 1, depth - 1, FALSE)
           [] OTHER -> FALSE

\* The dict decoded from the members at positions i..j of a valid object:
\* its items in order, a nested object decoded in turn.
RECURSIVE DecodeItems(_, _, _)
DecodeItems(text, i, j) ==
    IF i > j THEN << >>
    ELSE IF text[i] = "kv"
    THEN <<[key |-> "kv", value |-> << >>]>> \o DecodeItems(text, i + 1, j)
    ELSE LET close == Closing(text, i + 1)
         IN  <<[key |-> "key", value |-> DecodeItems(text, i + 2, close - 1)]>>
             \o DecodeItems(text, close + 1, j)

\* json.loads: the decoded dict, or JSONDecodeError.
JsonLoads(text) ==
    IF Scan(text, 1, 0, FALSE)
    THEN [ok |-> TRUE, value |-> DecodeItems(text, 2, Len(text) - 1)]
    ELSE [ok |-> FALSE, value |-> << >>]

\* The dict returned when no JSON is decoded:
\* {"action": "question", "questions_to_ask": [<one generic question>]}.
FallbackItems ==
    <<[key |-> "kv", value |-> << >>], [key |-> "kv", value |-> << >>]>>

\* analyze_request, from the reply text on: the text from the first "{" to
\* the last "}" is decoded; without such a text, or when decoding fails, the
\* fallback dict is returned.
AnalyzeRequest(response) ==
    LET json_start == Find(response, "{")
        json_end == RFind(response, "}")
        loaded == JsonLoads(SubSeq(response, json_start, json_end))
    IN  IF json_start # 0 /\ json_end >= json_start /\ loaded.ok
        THEN [fallback |-> FALSE, value |-> loaded.value]
        ELSE [fallback |-> TRUE, value |-> FallbackItems]

----------------------------------------------------------------------------
(* The graph state (KitchenState) and the nodes of the graph.              *)

\* The state run() builds when it is given no existing state.
FreshState ==
    [ messages |-> << >>,
      linear_meters |-> None, shape |-> None, style |-> None,
      materials |-> EmptyDict, colors |-> << >>, budget |-> None,
      current_image |-> None, design_version |-> 0, design_history |-> << >>,
      action |-> None, needs_clarification |-> FALSE, questions |-> None,
      response_text |-> [kind |-> "empty"], artifacts |-> << >>,
      error |-> None ]

\* The keys of the state run() returns, which the chat handler caches.
ReturnedKeys ==
    {"linear_meters", "shape", "style", "materials", "colors", "budget",
     "current_image", "design_version", "design_history", "messages"}

\* A node's partial update applied to the channels (every channel but
\* messages keeps the last value written).
Apply(s, upd) == upd @@ s

\* F applied to the value of v, v being computed once (Python evaluates
\* the right-hand side of an assignment once).
Bind(v, F(_)) == CHOOSE y \in {F(x) : x \in {v}} : TRUE

\* dict.get(k, default)
DictGet(d, k, default) == IF k \in DOMAIN d THEN d[k] ELSE default

\* current_materials.update({k: v for k, v in analysis["materials"].items() if v})
MaterialsUpdate(current, given) ==
    LET taken == {k \in DOMAIN given : TruthyStr(given[k])}
    IN  [k \in (DOMAIN current) \cup taken |->
            IF k \in taken THEN given[k][1] ELSE current[k]]

LinearQuestion == <<"linear_meters?">>

\* Variant of ParamUpdates: a key the record has is written even when its
\* value is null.
ParamUpdatesErasing(s, a) ==
    [k \in {f \in ScalarKeys : f \in a.has} |->
        IF k = "colors"
        THEN (IF Get(a, k) = None THEN << >> ELSE Get(a, k)[1])
        ELSE Get(a, k)]
    @@ (IF Truthy("materials", Get(a, "materials"))
        THEN [k \in {"materials"} |->
                MaterialsUpdate(s.materials, Get(a, "materials")[1])]
        ELSE EmptyDict)

\* Variant of ParamUpdates: a field is written only while nothing is stored
\* for it.
ParamUpdatesFirstOnly(s, a) ==
    [k \in {f \in ScalarKeys : Truthy(f, Get(a, f))
                               /\ s[f] = << >>} |->
        IF k = "colors" THEN Get(a, k)[1] ELSE Get(a, k)]
    @@ (IF Truthy("materials", Get(a, "materials"))
        THEN [k \in {"materials"} |->
                MaterialsUpdate(s.materials, Get(a, "materials")[1])]
        ELSE EmptyDict)

\* Variant of ParamUpdates: the extracted materials replace the stored
\* mapping wholesale.
ParamUpdatesWholesale(s, a) ==
    [k \in {f \in ScalarKeys : Truthy(f, Get(a, f))} |->
        IF k = "colors" THEN Get(a, k)[1] ELSE Get(a, k)]
    @@ (IF Truthy("materials", Get(a, "materials"))
        THEN [k \in {"materials"} |->
                MaterialsUpdate(EmptyDict, Get(a, "materials")[1])]
        ELSE EmptyDict)

\* The parameter updates of _analyze_input: one entry per field whose
\* extracted value Python treats as true.
ParamUpdates(s, a) ==
    [k \in {f \in ScalarKeys : Truthy(f, Get(a, f))} |->
        IF k = "colors" THEN Get(a, k)[1] ELSE Get(a, k)]
    @@ (IF Truthy("materials", Get(a, "materials"))
        THEN [k \in {"materials"} |->
                MaterialsUpdate(s.materials, Get(a, "materials")[1])]
        ELSE EmptyDict)

\* Variant of AnalyzeInput without the check for a known linear size.
AnalyzeInputNoSizeCheck(s, a) ==
    [ action |-> IF "action" \in a.has THEN a.action ELSE Some("respond"),
      needs_clarification |-> (Get(a, "action") = Some("clarification")),
      questions |-> IF "questions_to_ask" \in a.has
                    THEN a.questions_to_ask ELSE Some(<< >>) ]
    @@ ParamUpdates(s, a)

\* _analyze_input, after the classifier returned the record a.
AnalyzeInput(s, a) ==
    LET updates ==
            [ action |-> IF "action" \in a.has THEN a.action ELSE Some("respond"),
              needs_clarification |-> (Get(a, "action") = Some("clarification")),
              questions |-> IF "questions_to_ask" \in a.has
                            THEN a.questions_to_ask ELSE Some(<< >>) ]
            @@ ParamUpdates(s, a)
        sizeKnown ==
            \/ "linear_meters" \in DOMAIN updates
               /\ Truthy("linear_meters", updates["linear_meters"])
            \/ Truthy("linear_meters", s.linear_meters)
    IN  IF updates.action = Some("generate") /\ ~sizeKnown
        THEN [ needs_clarification |-> TRUE,
               questions |-> Some(<<LinearQuestion>>) ] @@ updates
        ELSE updates

\* The analyze node: without a message it returns an error entry and the
\* classifier is not called.
AnalyzeNode(s, a) ==
    IF s.messages = << >> THEN [error |-> Some("No message provided")]
    ELSE AnalyzeInput(s, a)

\* Variant of RouteAction that dispatches on the action first.
RouteActionActionFirst(s) ==
    IF s.action = Some("generate") THEN "generate"
    ELSE IF s.action = Some("edit") THEN "edit"
    ELSE IF s.needs_clarification THEN "clarify"
    ELSE "respond"

\* _route_action
RouteAction(s) ==
    IF s.needs_clarification THEN "clarify"
    ELSE IF s.action = Some("generate") THEN "generate"
    ELSE IF s.action = Some("edit") THEN "edit"
    ELSE "respond"

\* Variant of AskClarification: the combined question names the three
\* required fields whenever one of them is missing.
AskClarificationNamesAll(s) ==
    LET given == IF Truthy("questions_to_ask", s.questions)
                 THEN s.questions[1] ELSE << >>
        missing ==
            IF /\ Truthy("linear_meters", s.linear_meters)
               /\ Truthy("shape", s.shape)
               /\ Truthy("style", s.style)
            THEN << >>
            ELSE <<"linear_meters", "shape", "style">>
        questions ==
            IF given # << >> THEN given
            ELSE IF missing # << >> THEN << <<"need">> \o missing >>
            ELSE << <<"modify?">> >>
    IN  [ response_text |-> [ kind |-> "clarify", questions |-> questions,
                              menu |-> ~Truthy("shape", s.shape) ],
          artifacts |-> << >> ]

\* _ask_clarification
AskClarification(s) ==
    LET given == IF Truthy("questions_to_ask", s.questions)
                 THEN s.questions[1] ELSE << >>
        missing ==
            (IF Truthy("linear_meters", s.linear_meters) THEN << >>
             ELSE <<"linear_meters">>)
            \o (IF Truthy("shape", s.shape) THEN << >> ELSE <<"shape">>)
            \o (IF Truthy("style", s.style) THEN << >> ELSE <<"style">>)
        questions ==
            IF given # << >> THEN given
            ELSE IF missing # << >> THEN << <<"need">> \o missing >>
            ELSE << <<"modify?">> >>
    IN  [ response_text |-> [ kind |-> "clarify", questions |-> questions,
                              menu |-> ~Truthy("shape", s.shape) ],
          artifacts |-> << >> ]

----------------------------------------------------------------------------
(* Python floats (IEEE-754 binary64, round to nearest, ties to even).      *)
(*                                                                         *)
(* A float near a whole number of centimetres is the pair [c, e]: its      *)
(* exact value is c centimetres plus e units, one unit being               *)
(* 1 / (100 * 2^60) metre, so that a centimetre is 2^60 units.  The        *)
(* numbers of _generate_specs are all within a few thousand units of a     *)
(* whole centimetre.                                                       *)

RECURSIVE Pow2(_)
Pow2(n) == IF n = 0 THEN 1 ELSE 2 * Pow2(n - 1)

\* 2^n modulo m.
RECURSIVE Pow2Mod(_, _)
Pow2Mod(n, m) == IF n = 0 THEN 1 % m ELSE (2 * Pow2Mod(n - 1, m)) % m

\* The binary exponent j of a value of at least one centimetre:
\* 2^j <= value < 2^(j+1) metres.  100 * 2^j centimetres is a whole number
\* for j >= -2; below, no whole centimetre lies on a power of two.
RECURSIVE ExponentFrom(_, _, _)
ExponentFrom(c, e, j) ==
    IF 4 * c < 100 * Pow2(j + 3) \/ (4 * c = 100 * Pow2(j + 3) /\ e < 0)
    THEN j
    ELSE ExponentFrom(c, e, j + 1)
Exponent(c, e) ==
    IF c >= 25 /\ ~(c = 25 /\ e < 0) THEN ExponentFrom(c, e, -2)
    ELSE IF c >= 13 THEN -3
    ELSE IF c >= 7 THEN -4
    ELSE IF c >= 4 THEN -5
    ELSE IF c >= 2 THEN -6
    ELSE -7

\* The floats of exponent j are the multiples of 2^(j-52) metres, that is
\* of ulp = 100 * P units with P = 2^(8+j).  A whole number c of
\* centimetres lies (c * 2^(52-j) mod m) * P units above a multiple of
\* m * P units (m = 100: a float; m = 200: a float with an even mantissa).
Residue(c, j, P, m) == P * (((c % m) * Pow2Mod(52 - j, m)) % m)

\* x, which lies d units above the float below it, rounded to the nearer
\* of the two floats around it; a tie goes to the one with the even
\* mantissa (below says whether the float below is odd: below >= ulp).
RoundTo(x, ulp, d, below) ==
    [ c |-> x.c,
      e |-> IF 2 * d > ulp \/ (2 * d = ulp /\ below >= ulp)
            THEN x.e - d + ulp
            ELSE x.e - d ]

RoundAt(x, j) ==
    Bind(Pow2(8 + j), LAMBDA P :
      Bind((Residue(x.c, j, P, 100) + x.e) % (100 * P), LAMBDA d :
        Bind((Residue(x.c, j, P, 200) + (x.e - d)) % (200 * P),
             LAMBDA below : RoundTo(x, 100 * P, d, below))))

\* The float nearest to the exact value v.
RoundFloat(v) ==
    Bind(v, LAMBDA x :
      IF x.c = 0 THEN x
      ELSE Bind(Exponent(x.c, x.e), LAMBDA j : RoundAt(x, j)))

\* The float of a decimal literal of n hundredths.
FloatOfCm(n) == RoundFloat([c |-> n, e |-> 0])

\* x - y and n * y on floats: the exact result, rounded.
FloatSub(x, y) == RoundFloat([c |-> x.c - y.c, e |-> x.e - y.e])
FloatMul(n, y) == RoundFloat([c |-> n * y.c, e |-> n * y.e])
FloatGeq(x, y) == x.c > y.c \/ (x.c = y.c /\ x.e >= y.e)

RECURSIVE CeilLog2(_)
CeilLog2(n) == IF n <= 1 THEN 0 ELSE 1 + CeilLog2((n + 1) \div 2)

\* int(x / y) for floats x, y near whole centimetres.  When y's
\* centimetres do not divide x's, the quotient is far from an integer and
\* truncates to the whole-centimetre quotient n.  Otherwise the exact
\* quotient differs from n by (x.e - n * y.e) / y; the division rounds it
\* up to n unless it lies more than half an ulp below n (at half an ulp
\* the tie goes to n, whose mantissa is even, when it is a tie at all).
FloatDivToInt(u, v) ==
    Bind(u, LAMBDA x : Bind(v, LAMBDA y :
      Bind(x.c \div y.c, LAMBDA n :
        Bind(x.e - n * y.e, LAMBDA diff :
          Bind(y.c * Pow2(CeilLog2(n) + 6), LAMBDA half :
            IF x.c % y.c # 0 \/ n = 0 \/ diff >= 0 THEN n
            ELSE IF \/ (y.e < 0 /\ diff > -half)
                    \/ (y.e >= 0 /\ diff >= -half)
            THEN n
            ELSE n - 1)))))

----------------------------------------------------------------------------
(* The technical specification.                                            *)

\* Module lengths of _generate_specs, in centimetres (the literals 0.9,
\* 0.6, 0.6 and 0.4).
SinkLen == 90
ApplianceLen == 60
Storage60Len == 60
Storage40Len == 40

\* if remaining >= len: one module is listed and remaining -= len.  The
\* packing so far is the float remaining and the counts of the modules.
TakeModule(packing, len) ==
    Bind(packing, LAMBDA p : Bind(FloatOfCm(len), LAMBDA l :
      IF FloatGeq(p.remaining, l)
      THEN [ remaining |-> FloatSub(p.remaining, l),
             counts |-> Append(p.counts, 1) ]
      ELSE [ remaining |-> p.remaining, counts |-> Append(p.counts, 0) ]))

\* storage_60 = int(remaining / 0.6); remaining -= storage_60 * 0.6
FillStorage60(packing) ==
    Bind(packing, LAMBDA p : Bind(FloatOfCm(Storage60Len), LAMBDA l :
      Bind(FloatDivToInt(p.remaining, l), LAMBDA storage_60 :
        [ remaining |-> FloatSub(p.remaining, FloatMul(storage_60, l)),
          counts |-> Append(p.counts, storage_60) ])))

\* storage_40 = int(remaining / 0.4)
FillStorage40(packing) ==
    Bind(packing, LAMBDA p :
      Append(p.counts, FloatDivToInt(p.remaining, FloatOfCm(Storage40Len))))

\* The module counts for a linear size of linear hundredths of a metre, in
\* the order sink, cooktop, refrigerator, storage 60, storage 40.
ModuleCounts(linear) ==
    FillStorage40(FillStorage60(
      TakeModule(TakeModule(TakeModule(
        [remaining |-> FloatOfCm(linear), counts |-> << >>],
        SinkLen), ApplianceLen), ApplianceLen)))

\* The largest linear size of the sample, in centimetres, and the module
\* counts of the sizes up to it.
MaxLinearCm == 300
ModuleCountsUpToMax == [n \in 0..MaxLinearCm |-> ModuleCounts(n)]

\* cost_ranges: the bands of the budget tiers, in thousands of MXN.
CostRanges ==
    [ low |-> "15-25", medium |-> "25-45", high |-> "45-80",
      premium |-> "80-150+" ]

\* _generate_specs: the module counts, computed on floats as the code
\* computes them, and the printed fields.  The cost band is looked up
\* under the literal 'medium'.
GenerateSpecs(linear, shape, style, materials) ==
    Bind(IF linear \in 0..MaxLinearCm THEN ModuleCountsUpToMax[linear]
         ELSE ModuleCounts(linear), LAMBDA counts :
      [ linear_meters |-> linear, shape |-> shape,
        cabinets |-> DictGet(materials, "cabinets", "MDF lacado"),
        countertop |-> DictGet(materials, "countertop", "Cuarzo"),
        backsplash |-> DictGet(materials, "backsplash", "Azulejo"),
        sink |-> counts[1], cooktop |-> counts[2], fridge |-> counts[3],
        storage_60 |-> counts[4], storage_40 |-> counts[5],
        cost_range |-> DictGet(CostRanges, "medium", "30-50") ])

\* The tables of generate_kitchen_image.
ShapeDescriptions ==
    [ I |-> "single wall linear", L |-> "L-shaped corner",
      U |-> "U-shaped three-wall", G |-> "G-shaped with peninsula",
      parallel |-> "galley parallel walls" ]
StyleAtmospheres ==
    [ modern |-> "clean lines", classic |-> "ornate moldings",
      rustic |-> "natural wood", minimalist |-> "handleless cabinets",
      industrial |-> "exposed brick", scandinavian |-> "light wood",
      contemporary |-> "mixed materials" ]

\* table.get(key, default) for a key that may be None.
LookUp(table, key, default) ==
    IF key # None /\ key[1] \in DOMAIN table THEN table[key[1]] ELSE default

\* The prompt generate_kitchen_image sends to the Image Service for the
\* arguments of call: an empty materials mapping and an empty color list
\* are replaced (materials or {...}, colors or [...]), the shape and the
\* style are looked up in the tables, and the style is printed as given.
ImagePrompt(call) ==
    [ layout |-> LookUp(ShapeDescriptions, call.shape, "L-shaped"),
      style |-> call.style,
      atmosphere |-> LookUp(StyleAtmospheres, call.style,
                            "modern aesthetics"),
      materials |-> IF call.materials = EmptyDict
                    THEN [ cabinets |-> "white lacquered MDF",
                           countertop |-> "quartz",
                           backsplash |-> "subway tiles" ]
                    ELSE call.materials,
      colors |-> IF call.colors = << >>
                 THEN <<"white", "gray", "wood tones">>
                 ELSE call.colors ]

\* generate_kitchen_image indexes materials['cabinets'], ['countertop'] and
\* ['backsplash'] of a non-empty mapping: a missing key raises KeyError.
ImageRequestRaises(materials) ==
    DOMAIN materials # {} /\ ~(Categories \subseteq DOMAIN materials)

\* The result of a node: whether it raised, the update it returned and the
\* Image Service calls it made.
Raised(calls) == [raised |-> TRUE, upd |-> EmptyDict, calls |-> calls]
Returned(upd, calls) == [raised |-> FALSE, upd |-> upd, calls |-> calls]

\* Variant of GenerateFailed that records a new version.
GenerateFailedBumping(s, res) ==
    IF ~res.success
    THEN [ response_text |-> [kind |-> "generate_failed", error |-> res.error],
           artifacts |-> << >>,
           error |-> res.error,
           design_version |-> s.design_version + 1 ]
    ELSE [ response_text |-> [kind |-> "no_image"],
           artifacts |-> << >>,
           error |-> Some("No images generated"),
           design_version |-> s.design_version + 1 ]

\* _generate_design when the Image Service reports failure or no image.
GenerateFailed(s, res) ==
    IF ~res.success
    THEN [ response_text |-> [kind |-> "generate_failed", error |-> res.error],
           artifacts |-> << >>,
           error |-> res.error ]
    ELSE [ response_text |-> [kind |-> "no_image"],
           artifacts |-> << >>,
           error |-> Some("No images generated") ]

\* Variant of GenerateDesign: the history entry is not appended.
GenerateDesignNoHistory(s, res) ==
    LET linear_meters == s.linear_meters
        shape == s.shape
        style == s.style
        materials == s.materials
        colors == s.colors
        call == [ op |-> "generate", linear_meters |-> linear_meters,
                  shape |-> shape, style |-> style,
                  materials |-> materials, colors |-> colors ]
        new_version == s.design_version + 1
    IN  IF ImageRequestRaises(materials) THEN Raised(<< >>)
        ELSE IF ~res.success \/ res.images = << >>
        THEN Returned(GenerateFailed(s, res), <<call>>)
        ELSE IF linear_meters = None THEN Raised(<<call>>)
        ELSE Returned(
               [ response_text |->
                    [ kind |-> "design", version |-> new_version,
                      style |-> style, shape |-> shape,
                      linear_meters |-> linear_meters,
                      materials |-> materials, colors |-> colors ],
                 artifacts |->
                    << [ type |-> "image", image_data |-> res.images[1],
                         metadata |-> [ linear_meters |-> linear_meters,
                                        shape |-> shape, style |-> style,
                                        version |-> new_version ] ],
                       [ type |-> "specs",
                         content |-> GenerateSpecs(linear_meters[1], shape,
                                                   style, materials) ] >>,
                 current_image |-> Some(res.images[1]),
                 design_version |-> new_version ],
               <<call>>)

\* _generate_design, the Image Service answering res.  state.get(key,
\* default) returns the stored value, None included, because run() puts
\* every key into the state.
GenerateDesign(s, res) ==
    LET linear_meters == s.linear_meters
        shape == s.shape
        style == s.style
        materials == s.materials
        colors == s.colors
        call == [ op |-> "generate", linear_meters |-> linear_meters,
                  shape |-> shape, style |-> style,
                  materials |-> materials, colors |-> colors ]
        new_version == s.design_version + 1
    IN  IF ImageRequestRaises(materials) THEN Raised(<< >>)
        ELSE IF ~res.success \/ res.images = << >>
        THEN Returned(GenerateFailed(s, res), <<call>>)
        ELSE IF linear_meters = None THEN Raised(<<call>>)
        ELSE Returned(
               [ response_text |->
                    [ kind |-> "design", version |-> new_version,
                      style |-> style, shape |-> shape,
                      linear_meters |-> linear_meters,
                      materials |-> materials, colors |-> colors ],
                 artifacts |->
                    << [ type |-> "image", image_data |-> res.images[1],
                         metadata |-> [ linear_meters |-> linear_meters,
                                        shape |-> shape, style |-> style,
                                        version |-> new_version ] ],
                       [ type |-> "specs",
                         content |-> GenerateSpecs(linear_meters[1], shape,
                                                   style, materials) ] >>,
                 current_image |-> Some(res.images[1]),
                 design_version |-> new_version,
                 design_history |->
                    Append(s.design_history,
                           [ version |-> new_version,
                             params |-> [ linear_meters |-> linear_meters,
                                          shape |-> shape, style |-> style,
                                          materials |-> materials ] ]) ],
               <<call>>)

\* Variant of EditDesign: an edit answered with success and no image is
\* reported as a failed generation, without calling the generator.
EditDesignZeroImagesApologises(s, eres, gres) ==
    LET call == [ op |-> "edit", base_image |-> s.current_image,
                  instructions |-> IF s.messages = << >> THEN 0
                                   ELSE s.messages[Len(s.messages)] ]
        new_version == s.design_version + 1
    IN  IF ~Truthy("current_image", s.current_image)
        THEN GenerateDesign(s, gres)
        ELSE IF ~eres.success
        THEN Returned([ response_text |-> [kind |-> "regenerating"],
                        artifacts |-> << >>,
                        action |-> Some("generate") ], <<call>>)
        ELSE IF eres.images = << >>
        THEN Returned(GenerateFailed(s, eres), <<call>>)
        ELSE Returned(
               [ response_text |-> [kind |-> "edited", version |-> new_version],
                 artifacts |->
                    << [ type |-> "image", image_data |-> eres.images[1],
                         metadata |-> [ version |-> new_version,
                                        edit |-> TRUE ] ] >>,
                 current_image |-> Some(eres.images[1]),
                 design_version |-> new_version ],
               <<call>>)

\* Variant of EditDesign: without a current image the edit is refused.
EditDesignNoImageRefuses(s, eres, gres) ==
    LET call == [ op |-> "edit", base_image |-> s.current_image,
                  instructions |-> IF s.messages = << >> THEN 0
                                   ELSE s.messages[Len(s.messages)] ]
        new_version == s.design_version + 1
    IN  IF ~Truthy("current_image", s.current_image)
        THEN Returned([ response_text |-> [kind |-> "no_design"],
                        artifacts |-> << >> ], << >>)
        ELSE IF ~eres.success
        THEN Returned([ response_text |-> [kind |-> "regenerating"],
                        artifacts |-> << >>,
                        action |-> Some("generate") ], <<call>>)
        ELSE IF eres.images = << >>
        THEN LET g == GenerateDesign(s, gres)
             IN  [g EXCEPT !.calls = <<call>> \o g.calls]
        ELSE Returned(
               [ response_text |-> [kind |-> "edited", version |-> new_version],
                 artifacts |->
                    << [ type |-> "image", image_data |-> eres.images[1],
                         metadata |-> [ version |-> new_version,
                                        edit |-> TRUE ] ] >>,
                 current_image |-> Some(eres.images[1]),
                 design_version |-> new_version ],
               <<call>>)

\* Variant of EditDesign: the last returned image becomes the current one.
EditDesignLastImage(s, eres, gres) ==
    LET call == [ op |-> "edit", base_image |-> s.current_image,
                  instructions |-> IF s.messages = << >> THEN 0
                                   ELSE s.messages[Len(s.messages)] ]
        new_version == s.design_version + 1
    IN  IF ~Truthy("current_image", s.current_image)
        THEN GenerateDesign(s, gres)
        ELSE IF ~eres.success
        THEN Returned([ response_text |-> [kind |-> "regenerating"],
                        artifacts |-> << >>,
                        action |-> Some("generate") ], <<call>>)
        ELSE IF eres.images = << >>
        THEN LET g == GenerateDesign(s, gres)
             IN  [g EXCEPT !.calls = <<call>> \o g.calls]
        ELSE Returned(
               [ response_text |-> [kind |-> "edited", version |-> new_version],
                 artifacts |->
                    << [ type |-> "image",
                         image_data |-> eres.images[Len(eres.images)],
                         metadata |-> [ version |-> new_version,
                                        edit |-> TRUE ] ] >>,
                 current_image |-> Some(eres.images[Len(eres.images)]),
                 design_version |-> new_version ],
               <<call>>)

\* Variant of EditDesign: the image artifact of an edit carries the version
\* of the design that was edited.
EditDesignStaleVersion(s, eres, gres) ==
    LET call == [ op |-> "edit", base_image |-> s.current_image,
                  instructions |-> IF s.messages = << >> THEN 0
                                   ELSE s.messages[Len(s.messages)] ]
        new_version == s.design_version + 1
    IN  IF ~Truthy("current_image", s.current_image)
        THEN GenerateDesign(s, gres)
        ELSE IF ~eres.success
        THEN Returned([ response_text |-> [kind |-> "regenerating"],
                        artifacts |-> << >>,
                        action |-> Some("generate") ], <<call>>)
        ELSE IF eres.images = << >>
        THEN LET g == GenerateDesign(s, gres)
             IN  [g EXCEPT !.calls = <<call>> \o g.calls]
        ELSE Returned(
               [ response_text |-> [kind |-> "edited", version |-> new_version],
                 artifacts |->
                    << [ type |-> "image", image_data |-> eres.images[1],
                         metadata |-> [ version |-> s.design_version,
                                        edit |-> TRUE ] ] >>,
                 current_image |-> Some(eres.images[1]),
                 design_version |-> new_version ],
               <<call>>)

\* _edit_design, the Image Service answering the edit call with eres and a
\* generate call (when one is made) with gres.
EditDesign(s, eres, gres) ==
    LET call == [ op |-> "edit", base_image |-> s.current_image,
                  instructions |-> IF s.messages = << >> THEN 0
                                   ELSE s.messages[Len(s.messages)] ]
        new_version == s.design_version + 1
    IN  IF ~Truthy("current_image", s.current_image)
        THEN GenerateDesign(s, gres)
        ELSE IF ~eres.success
        THEN Returned([ response_text |-> [kind |-> "regenerating"],
                        artifacts |-> << >>,
                        action |-> Some("generate") ], <<call>>)
        ELSE IF eres.images = << >>
        THEN LET g == GenerateDesign(s, gres)
             IN  [g EXCEPT !.calls = <<call>> \o g.calls]
        ELSE Returned(
               [ response_text |-> [kind |-> "edited", version |-> new_version],
                 artifacts |->
                    << [ type |-> "image", image_data |-> eres.images[1],
                         metadata |-> [ version |-> new_version,
                                        edit |-> TRUE ] ] >>,
                 current_image |-> Some(eres.images[1]),
                 design_version |-> new_version ],
               <<call>>)

\* _generate_response: without a message the fixed greeting is returned
\* (and artifacts is not written); otherwise prior turns are replayed into a
\* new chat, then the latest utterance is sent; ok is whether the Reasoning
\* Service answered.
GenerateResponse(s, ok) ==
    IF s.messages = << >>
    THEN Returned([response_text |-> [kind |-> "greeting"]], << >>)
    ELSE IF ~ok THEN Raised(<< >>)
    ELSE Returned([ response_text |->
                       [ kind |-> "reply",
                         history |-> SubSeq(s.messages, 1, Len(s.messages) - 1),
                         to |-> s.messages[Len(s.messages)] ],
                    artifacts |-> << >> ], << >>)

\* _format_output
FormatOutput(s) ==
    [response_text |-> s.response_text, artifacts |-> s.artifacts]

----------------------------------------------------------------------------
(* run(): one invocation of the compiled graph.                            *)

\* Variant of ReturnedState that leaves current_image out of the result.
ReturnedStateNoImage(s) ==
    [k \in ReturnedKeys |-> IF k = "current_image" THEN None ELSE s[k]]

\* The part of a state record that run() returns.
ReturnedState(s) == [k \in ReturnedKeys |-> s[k]]

\* The answers the services give to the calls a branch makes from state s;
\* a service that is not called answers nothing (NoImage stands for that).
NoImage == [success |-> FALSE, images |-> << >>, error |-> Some("quota")]
ServiceAnswers(branch, s) ==
    CASE branch = "generate" ->
            {[gen |-> g, edit |-> NoImage, reply |-> TRUE] : g \in ImageResults}
      [] branch = "edit" ->
            IF ~Truthy("current_image", s.current_image)
            THEN {[gen |-> g, edit |-> NoImage, reply |-> TRUE] :
                    g \in ImageResults}
            ELSE {[gen |-> NoImage, edit |-> e, reply |-> TRUE] :
                    e \in {r \in ImageResults : ~r.success \/ r.images # << >>}}
                 \cup
                 {[gen |-> g, edit |-> e, reply |-> TRUE] :
                    g \in ImageResults,
                    e \in {r \in ImageResults : r.success /\ r.images = << >>}}
      [] branch = "respond" ->
            {[gen |-> NoImage, edit |-> NoImage, reply |-> r] : r \in BOOLEAN}
      [] OTHER ->
            {[gen |-> NoImage, edit |-> NoImage, reply |-> TRUE]}

\* The channels after the input of run() is applied to the checkpoint of
\* the thread: messages is reduced with operator.add, every other key of
\* the input replaces the checkpointed value.
InputChannels(existing, saved, msg) ==
    LET state == IF existing = None THEN FreshState ELSE existing[1]
        input == [state EXCEPT !.messages = Append(@, msg)]
    IN  [input EXCEPT !.messages = saved.messages \o @]
        @@ [FreshState EXCEPT !.error = saved.error]

\* The node a branch name of the conditional edge leads to.
RunNode(branch, s, ans) ==
    CASE branch = "clarify" -> Returned(AskClarification(s), << >>)
      [] branch = "generate" -> GenerateDesign(s, ans.gen)
      [] branch = "edit" -> EditDesign(s, ans.edit, ans.gen)
      [] branch = "respond" -> GenerateResponse(s, ans.reply)

\* graph.ainvoke on the channels ch0: analyze, the branch the conditional
\* edge selects, format_output.  classified is FALSE when the classifier
\* call raised; a is the decoded classifier record otherwise.
Invoke(ch0, classified, a, ans) ==
    IF ch0.messages # << >> /\ ~classified
    THEN [ outcome |-> "raised", path |-> <<"analyze">>,
           calls |-> << >>, analyzed |-> ch0, final |-> ch0 ]
    ELSE Bind(Apply(ch0, AnalyzeNode(ch0, a)), LAMBDA ch1 :
         Bind(RunNode(RouteAction(ch1), ch1, ans), LAMBDA r :
           IF r.raised
           THEN [ outcome |-> "raised",
                  path |-> <<"analyze", RouteAction(ch1)>>,
                  calls |-> r.calls, analyzed |-> ch1, final |-> ch1 ]
           ELSE Bind(Apply(ch1, r.upd), LAMBDA ch2 :
                  [ outcome |-> "ok",
                    path |-> <<"analyze", RouteAction(ch1), "format_output">>,
                    calls |-> r.calls, analyzed |-> ch1,
                    final |-> Apply(ch2, FormatOutput(ch2)) ])))

\* run(): the turn's record.  decoded is FALSE when analyze_request found no
\* JSON to decode in the reply and a is its fallback record.
Run(existing, saved, msg, classified, decoded, a, ans) ==
    [ utterance |-> msg,
      pre |-> ReturnedState(IF existing = None THEN FreshState
                            ELSE existing[1]),
      classified |-> classified, decoded |-> decoded,
      analysis |-> a, answers |-> ans ]
    @@ Invoke(InputChannels(existing, saved, msg), classified, a, ans)

----------------------------------------------------------------------------
(* The chat service around the agent.                                      *)

VARIABLES
    cache,      \* the cached agent state of the conversation, or None
    saved,      \* the agent's checkpoint of the conversation's thread
    turns,      \* number of chat requests handled
    last        \* the record of the turn being answered, if any

vars == <<cache, saved, turns, last>>

NoCheckpoint == [messages |-> << >>, error |-> None]

\* No request is being handled.
Idle == [outcome |-> "none"]

Init ==
    /\ cache = None
    /\ saved = NoCheckpoint
    /\ turns = 0
    /\ last = Idle

\* The record standing for no record: the classifier call raised.
NoAnalysis == MkAnalysis(Blank, {})

\* chat(): the handler finished a request whose run produced the record t.
\* The state is cached only when run() returned.
Handle(t) ==
    /\ turns' = turns + 1
    /\ last' = t
    /\ saved' = [messages |-> t.final.messages, error |-> t.final.error]
    /\ cache' = IF t.outcome = "ok" THEN Some(ReturnedState(t.final))
                ELSE cache

\* A chat request whose classifier call raises.
ChatClassifierFails ==
    /\ turns < MaxTurns
    /\ last = Idle
    /\ Handle(Run(cache, saved, turns + 1, FALSE, FALSE, NoAnalysis,
                  [gen |-> NoImage, edit |-> NoImage, reply |-> TRUE]))

\* Reply texts in which analyze_request finds no JSON to decode: no
\* brace, an object cut short, an object followed by a further brace.
UndecodableReplies ==
    { <<"txt">>, <<"{", "kv">>, <<"{", "kv", "}", "}">> }

\* A chat request whose classifier reply has no JSON that decodes:
\* analyze_request returns the fallback record.
ChatUndecodable ==
    /\ turns < MaxTurns
    /\ last = Idle
    /\ \E text \in UndecodableReplies :
         /\ AnalyzeRequest(text).fallback
         /\ LET ch0 == InputChannels(cache, saved, turns + 1)
                ch1 == Apply(ch0, AnalyzeNode(ch0, Fallback))
            IN  \E ans \in ServiceAnswers(RouteAction(ch1), ch1) :
                   Handle(Run(cache, saved, turns + 1, TRUE, FALSE,
                              Fallback, ans))

\* A chat request whose classifier reply decodes to the record a.
Chat ==
    /\ turns < MaxTurns
    /\ last = Idle
    /\ \E a \in Analyses :
         LET ch0 == InputChannels(cache, saved, turns + 1)
             ch1 == Apply(ch0, AnalyzeNode(ch0, a))
         IN  \E ans \in ServiceAnswers(RouteAction(ch1), ch1) :
                Handle(Run(cache, saved, turns + 1, TRUE, TRUE, a, ans))

\* The handler returns its response (or the error) to the client; the next
\* request of the conversation is handled after that.
Reply ==
    /\ last # Idle
    /\ last' = Idle
    /\ UNCHANGED <<cache, saved, turns>>

\* Between two requests the cached state expires (the handler sets a
\* seven-day expiry).
CacheExpire ==
    /\ last = Idle
    /\ cache # None
    /\ cache' = None
    /\ UNCHANGED <<saved, turns, last>>

\* The process restarts: agent_cache and its in-memory checkpoints are lost.
AgentRestart ==
    /\ last = Idle
    /\ saved # NoCheckpoint
    /\ saved' = NoCheckpoint
    /\ UNCHANGED <<cache, turns, last>>

Next ==
    \/ Chat
    \/ ChatUndecodable
    \/ ChatClassifierFails
    \/ Reply
    \/ CacheExpire
    \/ AgentRestart

Spec == Init /\ [][Next]_vars

----------------------------------------------------------------------------
(* The classifier alone: analyze_request applied to one reply text.        *)

ParseInit ==
    /\ cache = None
    /\ saved = NoCheckpoint
    /\ turns = 0
    /\ \E text \in Replies : last = [outcome |-> "replied", text |-> text]

\* The Reasoning Service has replied; analyze_request returns its record.
Classify ==
    /\ last.outcome = "replied"
    /\ last' = [ outcome |-> "analyzed", text |-> last.text,
                 result |-> AnalyzeRequest(last.text) ]
    /\ UNCHANGED <<cache, saved, turns>>

ParseNext == Classify

ParseSpec == ParseInit /\ [][ParseNext]_vars

----------------------------------------------------------------------------
(* The compiled graph alone: graph.ainvoke on an input state, without the  *)
(* message run() appends.                                                  *)

\* Input states: the fresh state with or without a message, and with the
\* routing keys, the linear size and the artifacts of an earlier turn
\* either way.
GraphInputs ==
    { [FreshState EXCEPT !.messages = m, !.action = act,
                         !.needs_clarification = nc, !.linear_meters = lm,
                         !.artifacts = arts] :
        m \in {<< >>, <<1>>},
        act \in {None, Some("generate"), Some("edit"), Some("question")},
        nc \in BOOLEAN,
        lm \in {None, Some(300)},
        arts \in {<< >>, <<[type |-> "image", image_data |-> 1]>>} }

\* The classifier records of the graph's invocations.
GraphAnalyses ==
    { MkAnalysis([Blank EXCEPT !.action = act], AnalysisKeys) :
        act \in ActionValues }

\* graph.ainvoke(input, config) on the thread's checkpoint.
GraphInvoke ==
    /\ turns < MaxTurns
    /\ last = Idle
    /\ \E input \in GraphInputs, a \in GraphAnalyses :
         LET ch0 == [input EXCEPT !.messages = saved.messages \o @,
                                  !.error = saved.error]
             ch1 == Apply(ch0, AnalyzeNode(ch0, a))
         IN  \E ans \in ServiceAnswers(RouteAction(ch1), ch1) :
                \E t \in {[ input |-> input, classified |-> TRUE,
                             analysis |-> a, answers |-> ans ]
                           @@ Invoke(ch0, TRUE, a, ans)} :
                    /\ last' = t
                    /\ saved' = [ messages |-> t.final.messages,
                                  error |-> t.final.error ]
                    /\ turns' = turns + 1
                    /\ UNCHANGED cache

GraphNext ==
    \/ GraphInvoke
    \/ Reply

GraphSpec == Init /\ [][GraphNext]_vars

----------------------------------------------------------------------------
(* Vocabulary of the properties: the turn being answered.                  *)

Answered == last # Idle
Classified == Answered /\ last.classified
TurnReturned == Answered /\ last.outcome = "ok"
Branch == last.path[2]

\* The state the conversation is left with: the returned state, or the
\* state the turn started from when run() raised (nothing is cached then).
After == IF last.outcome = "ok" THEN ReturnedState(last.final) ELSE last.pre

GenerateCalled == \E i \in 1..Len(last.calls) : last.calls[i].op = "generate"
EditCalled == \E i \in 1..Len(last.calls) : last.calls[i].op = "edit"
HasImage(res) == res.success /\ res.images # << >>
GenerateSucceeded == GenerateCalled /\ HasImage(last.answers.gen)
EditSucceeded == EditCalled /\ HasImage(last.answers.edit)

\* The linear size is known after analysis: extracted now or stored before.
SizeKnown ==
    \/ Truthy("linear_meters", Get(last.analysis, "linear_meters"))
    \/ Truthy("linear_meters", last.pre.linear_meters)

----------------------------------------------------------------------------
(* C1: design_version never decreases over a turn; it grows by exactly 1   *)
(* in a turn where the Image Service reported success with at least one    *)
(* image to a generate or an edit call, and by 0 in every other turn       *)
(* (clarify, converse, failed generate or edit).                           *)
C1_VersionStep ==
    Answered =>
        /\ After.design_version >= last.pre.design_version
        /\ After.design_version - last.pre.design_version =
              IF GenerateSucceeded \/ EditSucceeded THEN 1 ELSE 0

(* C2: after every turn in which a generate or an edit completed           *)
(* successfully, design_version equals the number of design_history        *)
(* entries.                                                                *)
C2_VersionIsHistoryLength ==
    (TurnReturned /\ (GenerateSucceeded \/ EditSucceeded)) =>
        last.final.design_version = Len(last.final.design_history)

(* C3: in every state returned by run, current_image is set if and only    *)
(* if design_version > 0.                                                  *)
C3_ImageIffVersion ==
    TurnReturned =>
        (ReturnedState(last.final).current_image # None
            <=> ReturnedState(last.final).design_version > 0)

C3_Witness ==
    /\ TurnReturned
    /\ Branch = "edit"
    /\ EditSucceeded
    /\ last.final.design_version = 2
    /\ last.final.current_image # last.pre.current_image

(* C4: for each of linear_meters, shape, style, colors and budget, when    *)
(* the classifier's record has the field null or absent, the value stored  *)
(* before the turn is the value stored after it, on every branch.          *)
C4_NullNeverErases ==
    Classified =>
        \A k \in ScalarKeys :
            Get(last.analysis, k) = None => After[k] = last.pre[k]

C4_Witness ==
    /\ TurnReturned
    /\ Branch = "generate"
    /\ last.pre.shape = Some("U")
    /\ last.pre.budget = Some("high")
    /\ last.analysis.has = AnalysisKeys
    /\ last.analysis.shape = None
    /\ last.final.shape = Some("U")

(* C5 as stated: every non-null extracted value of linear_meters, shape,   *)
(* style, colors or budget replaces the stored value and is the value the  *)
(* state returned by that turn carries.                                    *)
C5_NonNullOverwrites ==
    TurnReturned =>
        \A k \in ScalarKeys :
            Get(last.analysis, k) # None =>
                last.final[k] = IF k = "colors" THEN Get(last.analysis, k)[1]
                                ELSE Get(last.analysis, k)

(* C5 amended: an extracted value that is non-null and not empty (not 0,   *)
(* not "", not []) replaces the stored value in the graph state and is the *)
(* value the returned state carries, on every branch; a non-null empty     *)
(* value leaves the stored value as it was.                                *)
C5_TruthyOverwrites ==
    Classified =>
        \A k \in ScalarKeys :
            /\ Truthy(k, Get(last.analysis, k)) =>
                  last.final[k] = IF k = "colors"
                                  THEN Get(last.analysis, k)[1]
                                  ELSE Get(last.analysis, k)
            /\ (Get(last.analysis, k) # None
                /\ ~Truthy(k, Get(last.analysis, k))) =>
                  last.final[k] = last.pre[k]

C5_Witness ==
    /\ TurnReturned
    /\ Branch = "edit"
    /\ last.pre.shape = Some("U")
    /\ last.analysis.shape = Some("L")
    /\ last.final.shape = Some("L")

(* C6 as stated: every category the classifier's materials mapping gives a *)
(* non-null value for takes that value, every other category keeps the     *)
(* value stored before the turn.                                           *)
C6_NonNullMaterialTaken ==
    (TurnReturned /\ Get(last.analysis, "materials") # None) =>
        LET given == Get(last.analysis, "materials")[1]
        IN  \A c \in Categories :
                IF c \in DOMAIN given /\ given[c] # None
                THEN /\ c \in DOMAIN last.final.materials
                     /\ last.final.materials[c] = given[c][1]
                ELSE DictGet(last.final.materials, c, "unset")
                        = DictGet(last.pre.materials, c, "unset")

(* C6 amended: every category the mapping gives a non-null, non-empty      *)
(* value for takes that value; every category it omits or gives as null or *)
(* as the empty string keeps the value stored before the turn.             *)
C6_MaterialsMergeByField ==
    (Classified /\ Get(last.analysis, "materials") # None) =>
        LET given == Get(last.analysis, "materials")[1]
        IN  \A c \in Categories :
                IF c \in DOMAIN given /\ TruthyStr(given[c])
                THEN /\ c \in DOMAIN last.final.materials
                     /\ last.final.materials[c] = given[c][1]
                ELSE DictGet(last.final.materials, c, "unset")
                        = DictGet(last.pre.materials, c, "unset")

C6_Witness ==
    /\ TurnReturned
    /\ DOMAIN last.pre.materials = Categories
    /\ last.pre.materials["cabinets"] = "pine"
    /\ Get(last.analysis, "materials") = Some([c \in {"cabinets"} |-> Some("oak")])
    /\ last.final.materials["cabinets"] = "oak"
    /\ last.final.materials["countertop"] = "marble"

(* C7: whenever needs_clarification is true after analysis, the branch     *)
(* executed is clarify, whatever action the classifier returned, and the   *)
(* Image Service is called neither for a generate nor for an edit.         *)
C7_ClarificationPrecedence ==
    (Classified /\ last.final.needs_clarification) =>
        /\ Branch = "clarify"
        /\ last.calls = << >>

C7_Witness ==
    /\ TurnReturned
    /\ last.analysis.action = Some("generate")
    /\ last.final.needs_clarification
    /\ last.pre.design_version = 0
    /\ Branch = "clarify"

(* C8: when the classifier's action is generate and no linear size is      *)
(* known (neither extracted in this turn nor stored), the turn is a        *)
(* clarify turn asking exactly the one fixed linear-size question, the     *)
(* Image Service is not called and design_version is unchanged.            *)
C8_MissingSizeClarifies ==
    (Classified /\ Get(last.analysis, "action") = Some("generate")
       /\ ~SizeKnown) =>
        /\ last.path = <<"analyze", "clarify", "format_output">>
        /\ last.final.questions = Some(<<LinearQuestion>>)
        /\ last.final.response_text.kind = "clarify"
        /\ last.final.response_text.questions = <<LinearQuestion>>
        /\ last.calls = << >>
        /\ last.final.design_version = last.pre.design_version

C8_Witness ==
    /\ TurnReturned
    /\ last.analysis.action = Some("generate")
    /\ last.analysis.questions_to_ask = Some(<< <<"q1">>, <<"q2">> >>)
    /\ ~SizeKnown
    /\ last.final.response_text.questions = <<LinearQuestion>>

\* The classifier's action leads to the Design Generator: generate, or an
\* edit without a current image, or an edit answered with zero images.
LeadsToGenerator ==
    \/ Get(last.analysis, "action") = Some("generate")
    \/ /\ Get(last.analysis, "action") = Some("edit")
       /\ \/ ~Truthy("current_image", last.pre.current_image)
          \/ (last.answers.edit.success /\ last.answers.edit.images = << >>)

(* C9: whenever the linear size is absent when the Design Generator would  *)
(* run, by whichever way the generator is reached, the turn is a           *)
(* clarification turn and does not end in an error.                        *)
C9_NoSizeNeverGenerates ==
    (Classified /\ LeadsToGenerator /\ ~SizeKnown) =>
        /\ last.outcome = "ok"
        /\ Branch = "clarify"
        /\ ~GenerateCalled

(* C10: when the Image Service answers a generate call with failure or     *)
(* with zero images, the turn returns an apology and no artifact, sets     *)
(* error, and design_version, current_image and design_history are as      *)
(* before the turn.                                                        *)
C10_FailedGenerateMutatesNothing ==
    (Answered /\ GenerateCalled /\ ~HasImage(last.answers.gen)) =>
        /\ last.outcome = "ok"
        /\ last.final.response_text.kind \in {"generate_failed", "no_image"}
        /\ last.final.artifacts = << >>
        /\ last.final.error # None
        /\ last.final.design_version = last.pre.design_version
        /\ last.final.current_image = last.pre.current_image
        /\ last.final.design_history = last.pre.design_history

C10_Witness ==
    /\ TurnReturned
    /\ Branch = "generate"
    /\ last.answers.gen.success
    /\ last.answers.gen.images = << >>
    /\ last.pre.design_version = 1
    /\ last.final.design_version = 1
    /\ last.final.error = Some("No images generated")

----------------------------------------------------------------------------
(* The edit branch.                                                        *)

\* The keys a branch may write that make up the outcome of a turn.
OutcomeKeys ==
    {"response_text", "artifacts", "design_version", "current_image",
     "design_history", "error"}

\* The turn ended as the Design Generator result g, computed on the state
\* the branch started from, ends: it raised when g raised, and otherwise
\* the outcome keys carry what g wrote, or what they held when g left them.
EndsAs(g) ==
    /\ (last.outcome = "raised") <=> g.raised
    /\ ~g.raised =>
          \A k \in OutcomeKeys :
              last.final[k] = Apply(last.analyzed, g.upd)[k]

EditFailed == Classified /\ EditCalled /\ ~last.answers.edit.success
EditGaveNoImage ==
    /\ Classified
    /\ EditCalled
    /\ last.answers.edit.success
    /\ last.answers.edit.images = << >>

(* C11: when a current image exists and the Image Service reports failure  *)
(* to the edit call, the Design Generator runs in the same turn, analyze   *)
(* running once; if that generation succeeds the turn ends with            *)
(* design_version increased by 1 and an image artifact, and a failure is   *)
(* reported only if the generation fails too.                              *)
C11_FailedEditRegenerates ==
    EditFailed =>
        /\ GenerateCalled
        /\ Len(SelectSeq(last.path, LAMBDA n : n = "analyze")) = 1
        /\ GenerateSucceeded =>
              /\ After.design_version = last.pre.design_version + 1
              /\ \E i \in 1..Len(last.final.artifacts) :
                    last.final.artifacts[i].type = "image"
        /\ last.final.error # None => ~GenerateSucceeded

(* C12: when a current image exists and the Image Service answers the edit *)
(* call with success and zero images, the turn's response text, artifacts  *)
(* and state changes are those of the Design Generator run on the same     *)
(* state, and the generate call follows the edit call.                     *)
C12_ZeroImagesFallsBack ==
    EditGaveNoImage =>
        LET g == GenerateDesign(last.analyzed, last.answers.gen)
        IN  /\ EndsAs(g)
            /\ Len(last.calls) = 1 + Len(g.calls)
            /\ last.calls[1].op = "edit"
            /\ \A i \in 1..Len(g.calls) : last.calls[i + 1] = g.calls[i]

C12_Witness ==
    /\ EditGaveNoImage
    /\ TurnReturned
    /\ GenerateSucceeded
    /\ last.final.design_version = 2
    /\ Len(last.final.artifacts) = 2
    /\ Len(last.final.design_history) = 2

(* C13: whatever the parameters and the Image Service's answer, the edit   *)
(* branch run while current_image is absent gives the response text,       *)
(* artifacts, design_version, current_image and design_history that the    *)
(* generate branch gives on the same state.                                *)
C13_EditWithoutImageIsGenerate ==
    (Classified /\ Branch = "edit"
       /\ ~Truthy("current_image", last.analyzed.current_image)) =>
        LET g == RunNode("generate", last.analyzed, last.answers)
        IN  /\ EndsAs(g)
            /\ last.calls = g.calls

C13_Witness ==
    /\ TurnReturned
    /\ Branch = "edit"
    /\ last.pre.current_image = None
    /\ GenerateSucceeded
    /\ last.final.design_version = 1
    /\ last.final.current_image = Some(2)
    /\ Len(last.final.artifacts) = 2

(* C14: a successful generate (the Image Service answers the generate call *)
(* with success and at least one image, and the generator completes) emits *)
(* exactly two artifacts, an image artifact carrying the first returned    *)
(* image and the metadata linear size, shape, style and version, followed  *)
(* by a specs artifact; it appends exactly one history entry whose version *)
(* is the new design_version and sets current_image to the first returned  *)
(* image; from a fresh state the turn ends with version 1 and one history  *)
(* entry.                                                                  *)
C14_SuccessfulGenerate ==
    (TurnReturned /\ GenerateSucceeded) =>
        LET f == last.final
            image == last.answers.gen.images[1]
        IN  /\ f.design_version = last.pre.design_version + 1
            /\ Len(f.artifacts) = 2
            /\ f.artifacts[1].type = "image"
            /\ f.artifacts[1].image_data = image
            /\ f.artifacts[1].metadata =
                  [ linear_meters |-> f.linear_meters, shape |-> f.shape,
                    style |-> f.style, version |-> f.design_version ]
            /\ f.artifacts[2].type = "specs"
            /\ Len(f.design_history) = Len(last.pre.design_history) + 1
            /\ SubSeq(f.design_history, 1, Len(last.pre.design_history))
                  = last.pre.design_history
            /\ f.design_history[Len(f.design_history)].version
                  = f.design_version
            /\ f.current_image = Some(image)
            /\ last.pre = ReturnedState(FreshState) =>
                  f.design_version = 1 /\ Len(f.design_history) = 1

C14_Witness ==
    /\ TurnReturned
    /\ Branch = "generate"
    /\ last.pre = ReturnedState(FreshState)
    /\ last.answers.gen.images = <<2, 1>>
    /\ last.final.current_image = Some(2)
    /\ last.final.design_version = 1
    /\ Len(last.final.design_history) = 1
    /\ last.final.artifacts[2].content.storage_60 = 1

(* C15: an edit call made with a current image and answered with success   *)
(* and at least one image increments design_version by 1, replaces         *)
(* current_image by the first returned image and emits exactly one         *)
(* artifact, of type image, tagged edit: true.                             *)
C15_SuccessfulEdit ==
    (Classified /\ EditCalled /\ HasImage(last.answers.edit)) =>
        LET f == last.final
            image == last.answers.edit.images[1]
        IN  /\ last.outcome = "ok"
            /\ last.pre.current_image # None
            /\ f.design_version = last.pre.design_version + 1
            /\ f.current_image = Some(image)
            /\ Len(f.artifacts) = 1
            /\ f.artifacts[1].type = "image"
            /\ f.artifacts[1].image_data = image
            /\ f.artifacts[1].metadata.edit = TRUE
            /\ f.artifacts[1].metadata.version = f.design_version

C15_Witness ==
    /\ TurnReturned
    /\ Branch = "edit"
    /\ last.pre.current_image = Some(1)
    /\ last.answers.edit.images = <<2, 1>>
    /\ last.final.current_image = Some(2)
    /\ last.final.design_version = 2
    /\ Len(last.final.artifacts) = 1

----------------------------------------------------------------------------
(* The turn as a whole.                                                    *)

Branches == {"clarify", "generate", "edit", "respond"}

(* C16: every turn runs analyze, then exactly one of the branches clarify, *)
(* generate, edit, converse, then format_output, and ends; no node is      *)
(* skipped and analyze runs exactly once.                                  *)
C16_TurnPath ==
    Answered =>
        /\ Len(last.path) = 3
        /\ last.path[1] = "analyze"
        /\ last.path[2] \in Branches
        /\ last.path[3] = "format_output"

(* C17: every turn ends with a well-formed {response_text, artifacts}      *)
(* result and a reply to the user, also when a Reasoning Service call      *)
(* (classification or conversation) fails: no exception leaves run.        *)
C17_TurnAlwaysReplies ==
    Answered =>
        /\ last.outcome = "ok"
        /\ last.final.response_text.kind # "empty"

C19_UndecodableReplyFailsSoft ==
    (Answered /\ last.classified /\ ~last.decoded) =>
        /\ Get(last.analysis, "action") = Some("question")
        /\ Len(Get(last.analysis, "questions_to_ask")[1]) = 1
        /\ last.outcome = "ok"

\* The first top-level block of a reply text: from its first opening brace
\* to the brace closing that one.
HasFirstBlock(text) ==
    /\ Find(text, "{") # 0
    /\ Closing(text, Find(text, "{")) # 0
FirstBlock(text) ==
    SubSeq(text, Find(text, "{"), Closing(text, Find(text, "{")))

(* C20: for a reply made of arbitrary text, one valid block and arbitrary  *)
(* trailing text (which may hold braces or a second block), the record the *)
(* classifier returns is the decoded first top-level block.                *)
C20_DecodesFirstBlock ==
    (last.outcome = "analyzed" /\ HasFirstBlock(last.text)
       /\ JsonLoads(FirstBlock(last.text)).ok) =>
        /\ ~last.result.fallback
        /\ last.result.value = JsonLoads(FirstBlock(last.text)).value

----------------------------------------------------------------------------
(* The technical specification alone: _generate_specs applied to one       *)
(* linear size.                                                            *)

PackInit ==
    /\ cache = None
    /\ saved = NoCheckpoint
    /\ turns = 0
    /\ \E n \in 0..MaxLinearCm : last = [outcome |-> "sized", linear |-> n]

\* _generate_design asks for the specification of the stored size.
Specify ==
    /\ last.outcome = "sized"
    /\ last' = [ outcome |-> "specified", linear |-> last.linear,
                 specs |-> GenerateSpecs(last.linear, Some("L"),
                                         Some("modern"), EmptyDict) ]
    /\ UNCHANGED <<cache, saved, turns>>

PackNext == Specify

PackSpec == PackInit /\ [][PackNext]_vars

\* The module counts of a specification, in the order they are allocated.
Modules(specs) ==
    <<specs.sink, specs.cooktop, specs.fridge,
      specs.storage_60, specs.storage_40>>

\* The packing of n centimetres in whole centimetres.
PackingInCm(n) ==
    LET sink == IF n >= 90 THEN 1 ELSE 0
        r1 == n - 90 * sink
        cooktop == IF r1 >= 60 THEN 1 ELSE 0
        r2 == r1 - 60 * cooktop
        fridge == IF r2 >= 60 THEN 1 ELSE 0
        r3 == r2 - 60 * fridge
        storage_60 == r3 \div 60
        r4 == r3 - 60 * storage_60
    IN  <<sink, cooktop, fridge, storage_60, r4 \div 40>>

(* C24: for every linear size the specification allocates, in whole        *)
(* centimetres, a 90 cm sink, a 60 cm cooktop and a 60 cm refrigerator     *)
(* while they fit, then floor(remaining/60) storage-60 and                 *)
(* floor(residual/40) storage-40 modules; 300 cm gives sink, cooktop,      *)
(* refrigerator and one storage-60, 100 cm gives the sink only.            *)
C24_PacksInCentimetres ==
    last.outcome = "specified" =>
        /\ Modules(last.specs) = PackingInCm(last.linear)
        /\ last.linear = 300 => Modules(last.specs) = <<1, 1, 1, 1, 0>>
        /\ last.linear = 100 => Modules(last.specs) = <<1, 0, 0, 0, 0>>

----------------------------------------------------------------------------
(* The clarify and converse branches.                                      *)

\* The required fields that are unknown in the state st, in the order the
\* combined question names them.
MissingFields(st) ==
    (IF Truthy("linear_meters", st.linear_meters) THEN << >>
     ELSE <<"linear_meters">>)
    \o (IF Truthy("shape", st.shape) THEN << >> ELSE <<"shape">>)
    \o (IF Truthy("style", st.style) THEN << >> ELSE <<"style">>)

\* The questions the classifier supplied in this turn, if any.
SuppliedQuestions ==
    IF Truthy("questions_to_ask", Get(last.analysis, "questions_to_ask"))
    THEN Get(last.analysis, "questions_to_ask")[1] ELSE << >>

\* The question text of a clarify turn that is not the missing-size turn.
ComposedQuestions ==
    IF SuppliedQuestions # << >> THEN SuppliedQuestions
    ELSE IF MissingFields(last.final) # << >>
    THEN << <<"need">> \o MissingFields(last.final) >>
    ELSE << <<"modify?">> >>

ClarifyTurn == TurnReturned /\ Branch = "clarify"

\* The turn in which analyze replaced the questions by the linear-size one.
MissingSizeTurn ==
    Get(last.analysis, "action") = Some("generate") /\ ~SizeKnown

(* C21: in a clarify turn the question text is the classifier's explicit   *)
(* questions verbatim when it supplied any, otherwise one combined         *)
(* question naming exactly the unknown ones of linear size, shape, style,  *)
(* and the generic question when none is missing; the turn has no          *)
(* artifacts.                                                              *)
C21_ClarifyText ==
    ClarifyTurn =>
        /\ last.final.response_text.kind = "clarify"
        /\ last.final.response_text.questions = ComposedQuestions
        /\ last.final.artifacts = << >>

(* C21, amended: as above, except in the turn where generate was asked     *)
(* without a known linear size, whose text is the one fixed linear-size    *)
(* question whatever the classifier supplied.                              *)
C21_ClarifyTextOrSizeQuestion ==
    ClarifyTurn =>
        /\ last.final.response_text.kind = "clarify"
        /\ last.final.response_text.questions =
              IF MissingSizeTurn THEN <<LinearQuestion>>
              ELSE ComposedQuestions
        /\ last.final.artifacts = << >>

C21_Witness ==
    /\ ClarifyTurn
    /\ ~MissingSizeTurn
    /\ SuppliedQuestions = << >>
    /\ last.final.linear_meters = Some(300)
    /\ last.final.response_text.questions = << <<"need", "shape", "style">> >>

\* The utterances of the conversation before the one being answered.
PriorUtterances == [i \in 1..(last.utterance - 1) |-> i]

(* C22: in a converse turn the context given to the Reasoning Service is   *)
(* the sequence of all prior turns of the conversation in order, without   *)
(* the current utterance; the current utterance is then sent once and the  *)
(* reply is the response text, with an empty artifact list.                *)
C22_ConverseContext ==
    (TurnReturned /\ Branch = "respond") =>
        /\ last.final.response_text.kind = "reply"
        /\ last.final.response_text.history = PriorUtterances
        /\ last.final.response_text.to = last.utterance
        /\ last.final.artifacts = << >>

----------------------------------------------------------------------------
(* The Design Generator's inputs.                                          *)

\* The technical specification of a turn whose generation succeeded.
SpecsOfTurn == last.final.artifacts[2].content

(* C25: the cost range printed in the technical specification is the band  *)
(* of the conversation's budget tier, and the medium band only when the    *)
(* budget is unset.                                                        *)
C25_CostRangeOfBudget ==
    (TurnReturned /\ GenerateSucceeded) =>
        SpecsOfTurn.cost_range =
            IF Truthy("budget", last.final.budget)
            THEN CostRanges[last.final.budget[1]]
            ELSE CostRanges["medium"]

\* The defaults of the Design Generator's inputs.
DefaultShape == "L"
DefaultStyle == "modern"
DefaultMaterials ==
    [ cabinets |-> "lacquered MDF", countertop |-> "quartz",
      backsplash |-> "ceramic tiles" ]
DefaultColors == <<"white", "gray">>

\* A parameter as the Design Generator is to use it: the stored value, or
\* the default when nothing is stored.
OrDefault(stored, default) == IF stored = None THEN default ELSE stored[1]

\* The arguments of the turn's call of generate_kitchen_image.
GenerateCall ==
    last.calls[CHOOSE i \in 1..Len(last.calls) : last.calls[i].op = "generate"]

(* C26: when shape, style, materials or colors are unset when the Design   *)
(* Generator runs, the defaults (shape L, style modern, the default        *)
(* material set, colors white and gray) are substituted: the image         *)
(* request, the image artifact's metadata and the history snapshot of the  *)
(* turn record the default values and never an unset value.                *)
C26_DefaultsSubstituted ==
    (TurnReturned /\ GenerateSucceeded) =>
        LET st == last.analyzed
            shape == OrDefault(st.shape, DefaultShape)
            style == OrDefault(st.style, DefaultStyle)
            materials == IF st.materials = EmptyDict THEN DefaultMaterials
                         ELSE st.materials
            colors == IF st.colors = << >> THEN DefaultColors ELSE st.colors
            prompt == ImagePrompt(GenerateCall)
            metadata == last.final.artifacts[1].metadata
            snapshot ==
                last.final.design_history[Len(last.final.design_history)]
        IN  /\ prompt.layout = ShapeDescriptions[shape]
            /\ prompt.style = Some(style)
            /\ prompt.materials = materials
            /\ prompt.colors = colors
            /\ metadata.shape = Some(shape)
            /\ metadata.style = Some(style)
            /\ snapshot.params.shape = Some(shape)
            /\ snapshot.params.style = Some(style)
            /\ snapshot.params.materials = materials

----------------------------------------------------------------------------
(* The chat handlers step by step: chat() and websocket_chat(), with the   *)
(* requests of one conversation in flight together.  The server runs the   *)
(* handlers as coroutines and switches between them at every await; no     *)
(* lock is taken.  Here last holds the handler invocations.                *)

Requests == {"r1", "r2"}
EntryPaths == {"http", "ws"}

\* The classifier records of the requests: a shape, a style, or a size
\* with the request for a design.
HandlerAnalyses ==
    { MkAnalysis([Blank EXCEPT !.action = Some("question"),
                               !.shape = Some("L")], AnalysisKeys),
      MkAnalysis([Blank EXCEPT !.action = Some("question"),
                               !.style = Some("rustic")], AnalysisKeys),
      MkAnalysis([Blank EXCEPT !.action = Some("generate"),
                               !.linear_meters = Some(300)], AnalysisKeys) }

\* A handler invocation that has not started.
NotReceived ==
    [ pc |-> "none", path |-> "http", utterance |-> 0, analysis |-> NoAnalysis,
      existing |-> None, result |-> None, recorded |-> {}, titled |-> FALSE ]

HandlerInit ==
    /\ cache = None
    /\ saved = NoCheckpoint
    /\ turns = 0
    /\ last = [r \in Requests |-> NotReceived]

\* The images among a list of artifacts.
ImagesOf(artifacts) ==
    { artifacts[i].image_data :
        i \in {j \in 1..Len(artifacts) : artifacts[j].type = "image"} }

\* A request arrives on one of the entry paths; the user message is saved.
Receive(r) ==
    /\ last[r].pc = "none"
    /\ \E path \in EntryPaths, a \in HandlerAnalyses :
         last' = [last EXCEPT ![r] =
                    [@ EXCEPT !.pc = "read", !.path = path,
                              !.utterance = turns + 1, !.analysis = a]]
    /\ turns' = turns + 1
    /\ UNCHANGED <<cache, saved>>

\* existing_state = redis_client.get(state_key)
ReadState(r) ==
    /\ last[r].pc = "read"
    /\ last' = [last EXCEPT ![r] = [@ EXCEPT !.pc = "run", !.existing = cache]]
    /\ UNCHANGED <<cache, saved, turns>>

\* agent.run(...): when it raises, the handler answers with the error and
\* nothing more is done for the request.
RunAgent(r) ==
    /\ last[r].pc = "run"
    /\ LET req == last[r]
           ch0 == InputChannels(req.existing, saved, req.utterance)
           ch1 == Apply(ch0, AnalyzeNode(ch0, req.analysis))
       IN  \E ans \in ServiceAnswers(RouteAction(ch1), ch1) :
              \E t \in {Run(req.existing, saved, req.utterance, TRUE, TRUE,
                           req.analysis, ans)} :
                  /\ saved' = [ messages |-> t.final.messages,
                                error |-> t.final.error ]
                  /\ last' = [last EXCEPT ![r] =
                        IF t.outcome = "ok"
                        THEN [@ EXCEPT
                                !.pc = IF req.path = "http" THEN "record"
                                       ELSE "send",
                                !.result =
                                   Some([ state |-> ReturnedState(t.final),
                                          artifacts |-> t.final.artifacts ])]
                        ELSE [@ EXCEPT !.pc = "done"]]
    /\ UNCHANGED <<cache, turns>>

\* chat(): the assistant message, every artifact of the result and, when
\* the state has a current image, the design iteration are committed.
RecordHttp(r) ==
    /\ last[r].pc = "record"
    /\ last' = [last EXCEPT ![r] =
                  [@ EXCEPT !.pc = "write",
                            !.recorded =
                               ImagesOf(last[r].result[1].artifacts)]]
    /\ UNCHANGED <<cache, saved, turns>>

\* websocket_chat(): the text and the artifacts are sent to the client and
\* the assistant message is committed; no artifact is stored.
SendWs(r) ==
    /\ last[r].pc = "send"
    /\ last' = [last EXCEPT ![r] = [@ EXCEPT !.pc = "write"]]
    /\ UNCHANGED <<cache, saved, turns>>

\* redis_client.set(state_key, json.dumps(result["state"]), ex=...)
WriteCache(r) ==
    /\ last[r].pc = "write"
    /\ cache' = Some(last[r].result[1].state)
    /\ last' = [last EXCEPT ![r] = [@ EXCEPT !.pc = "written"]]
    /\ UNCHANGED <<saved, turns>>

\* The rest of the handler: chat() updates the conversation title when
\* design_version is 1 and returns; websocket_chat() sends "done".
Finish(r) ==
    /\ last[r].pc = "written"
    /\ last' = [last EXCEPT ![r] =
                  [@ EXCEPT !.pc = "done",
                            !.titled =
                               /\ last[r].path = "http"
                               /\ last[r].result[1].state.design_version = 1]]
    /\ UNCHANGED <<cache, saved, turns>>

HandlerNext ==
    \E r \in Requests :
        \/ Receive(r)
        \/ ReadState(r)
        \/ RunAgent(r)
        \/ RecordHttp(r)
        \/ SendWs(r)
        \/ WriteCache(r)
        \/ Finish(r)

HandlerSpec == HandlerInit /\ [][HandlerNext]_vars

\* The request has read the cached state and not yet written it back.
InTurn(r) == last[r].pc \in {"run", "record", "send", "write"}

\* The parameters the classifier extracted for request r and not for q.
OwnUpdates(r, q) ==
    { k \in {"linear_meters", "shape", "style"} :
        /\ Truthy(k, Get(last[r].analysis, k))
        /\ ~Truthy(k, Get(last[q].analysis, k)) }

(* C27: turn processing for one conversation is never re-entered: at no    *)
(* time are two turns both between reading the cached state and writing    *)
(* it back, and no turn's parameter updates are lost when two requests     *)
(* arrive together.                                                        *)
C27_NoReentry ==
    \A r \in Requests :
        \A q \in Requests \ {r} :
            /\ ~(InTurn(r) /\ InTurn(q))
            /\ (last[r].pc = "done" /\ last[r].result # None
                  /\ last[q].pc = "done" /\ last[q].result # None) =>
                  \A k \in OwnUpdates(r, q) :
                      cache[1][k] = Get(last[r].analysis, k)

\* The request has written the state to the cache.
Written(r) == last[r].pc \in {"written", "done"} /\ last[r].result # None

\* The images recorded as artifacts by the requests so far.
RecordedImages == UNION { last[r].recorded : r \in Requests }

(* C29: in every turn, on both entry paths, the updated state is written   *)
(* to the cache only after every artifact of the turn has been recorded,   *)
(* and the write is the last step of the turn; a cached state never        *)
(* references an image whose artifact was not recorded.                    *)
C29_CacheWrittenLast ==
    /\ \A r \in Requests :
          /\ Written(r) =>
                ImagesOf(last[r].result[1].artifacts) \subseteq last[r].recorded
          /\ last[r].pc = "done" => ~last[r].titled
    /\ (cache # None /\ cache[1].current_image # None) =>
          cache[1].current_image[1] \in RecordedImages

----------------------------------------------------------------------------
(* One user's agent serving two conversations.  agent_cache keeps one      *)
(* KitchenDesignAgent per user; its GeminiReasoner keeps one chat session  *)
(* (self.chat), and its checkpointer one thread per conversation.  Here    *)
(* cache maps each conversation to its cached state and saved holds the    *)
(* agent's threads and the messages of its chat session.                   *)

Conversations == {"A", "B"}

\* The classifier records of the turns: one per action, and a request for
\* a design with its size.
SharedAnalyses ==
    GraphAnalyses
    \cup { MkAnalysis([Blank EXCEPT !.action = Some("generate"),
                                    !.linear_meters = Some(300)],
                      AnalysisKeys) }

SharedInit ==
    /\ cache = [c \in Conversations |-> None]
    /\ saved = [ threads |-> [c \in Conversations |-> NoCheckpoint],
                 chat |-> None ]
    /\ turns = 0
    /\ last = Idle

\* The messages already in the chat session when send_message is called:
\* none when the session does not exist yet (send_message creates it).
ChatContext(chat) == IF chat = None THEN << >> ELSE chat[1]

\* start_chat(history): a new session into which the user messages of the
\* history are sent again.
StartChat(c, history) ==
    [i \in 1..Len(history) |-> [conversation |-> c, utterance |-> history[i]]]

\* A chat request of conversation c: analyze_request sends its prompt,
\* which quotes the utterance and the parameters of c, into the session as
\* it is; the converse branch then starts a new session, replays the prior
\* messages of c and sends the utterance.
ChatIn(c) ==
    /\ turns < MaxTurns
    /\ last = Idle
    /\ \E a \in SharedAnalyses :
         LET ch0 == InputChannels(cache[c], saved.threads[c], turns + 1)
             ch1 == Apply(ch0, AnalyzeNode(ch0, a))
         IN  \E ans \in ServiceAnswers(RouteAction(ch1), ch1) :
             \E t \in {Run(cache[c], saved.threads[c], turns + 1, TRUE, TRUE,
                           a, ans)} :
             \E sent \in {[conversation |-> c, utterance |-> turns + 1]} :
             \E before \in {ChatContext(saved.chat)} :
             \E replayed \in {StartChat(c, SubSeq(ch1.messages, 1,
                                                  Len(ch1.messages) - 1))} :
                /\ turns' = turns + 1
                /\ cache' = [cache EXCEPT ![c] =
                                IF t.outcome = "ok"
                                THEN Some(ReturnedState(t.final)) ELSE @]
                /\ saved' =
                      [ threads |-> [saved.threads EXCEPT ![c] =
                                        [ messages |-> t.final.messages,
                                          error |-> t.final.error ]],
                        chat |-> IF RouteAction(ch1) # "respond"
                                 THEN Some(Append(before, sent))
                                 ELSE IF ans.reply
                                 THEN Some(Append(replayed, sent))
                                 ELSE Some(replayed) ]
                /\ last' = [ conversation |-> c,
                             contexts |->
                                <<before>> \o
                                (IF RouteAction(ch1) = "respond"
                                 THEN <<replayed>> ELSE << >>) ] @@ t

SharedNext ==
    \/ \E c \in Conversations : ChatIn(c)
    \/ Reply

SharedAgentSpec == SharedInit /\ [][SharedNext]_vars

(* C28: conversation history is never reused across conversations: every   *)
(* Reasoning Service call made for a turn of a conversation                *)
(* (classification or conversation) runs in a chat context that contains   *)
(* no message of the user's other conversation.                            *)
C28_NoForeignContext ==
    Answered =>
        \A i \in 1..Len(last.contexts) :
            \A k \in 1..Len(last.contexts[i]) :
                last.contexts[i][k].conversation = last.conversation

----------------------------------------------------------------------------
(* run() without a prior state.                                            *)

\* run() was called with existing_state = None (a cached state always
\* holds a message).
NoPriorState == Answered /\ "pre" \in DOMAIN last /\ last.pre.messages = << >>

(* C30: when run is called with no prior state the turn starts from a      *)
(* fresh state, even if the agent instance has already processed turns of  *)
(* the conversation: the returned state's messages hold only the new       *)
(* utterance, and design_version, current_image and design_history         *)
(* reflect this turn alone.                                                *)
C30_FreshWithoutPriorState ==
    (TurnReturned /\ NoPriorState) =>
        /\ last.final.messages = <<last.utterance>>
        /\ last.final.design_version = Len(last.final.design_history)
        /\ last.final.design_version \in {0, 1}
        /\ last.final.current_image # None <=> last.final.design_version = 1

----------------------------------------------------------------------------
(* The history of a conversation.                                          *)

(* C32: messages is append-only and grows by exactly one entry per turn:   *)
(* on one agent instance, with each turn's returned state passed as the    *)
(* next turn's prior state, it holds the user utterances, each once, in    *)
(* submission order.                                                       *)
C32_MessagesGrowByOne ==
    (TurnReturned /\ ~NoPriorState) =>
        /\ last.final.messages = Append(last.pre.messages, last.utterance)
        /\ \A i \in 1..Len(last.final.messages) :
              \A j \in 1..Len(last.final.messages) :
                  i < j => last.final.messages[i] < last.final.messages[j]

----------------------------------------------------------------------------
(* Artifacts and versions.                                                 *)

\* The image artifacts of the turn's result.
ImageArtifacts ==
    { i \in 1..Len(last.final.artifacts) :
        last.final.artifacts[i].type = "image" }

(* C34: a turn's artifact list contains an image artifact if and only if   *)
(* design_version increased in that turn, and the version in the image     *)
(* artifact's metadata is the design_version of the returned state.        *)
C34_ImageArtifactIffVersionStep ==
    TurnReturned =>
        /\ ImageArtifacts # {}
              <=> last.final.design_version > last.pre.design_version
        /\ \A i \in ImageArtifacts :
              last.final.artifacts[i].metadata.version =
                  last.final.design_version

C34_Witness ==
    /\ TurnReturned
    /\ EditSucceeded
    /\ last.pre.design_version = 1
    /\ ImageArtifacts = {1}
    /\ last.final.artifacts[1].metadata.version = 2
    /\ last.final.design_version = 2

\* The turn's classification fell back: the reply had no JSON to decode.
FellBack == Answered /\ last.classified /\ ~last.decoded

(* C35: when classification falls back because the reply could not be     *)
(* decoded, the turn takes the converse branch, not clarify: the generic   *)
(* fallback question is not the reply, the Reasoning Service is called     *)
(* again for a conversational answer, and the design parameters,           *)
(* design_version, current_image and design_history are unchanged.         *)
C35_FallbackConverses ==
    FellBack =>
        /\ Branch = "respond"
        /\ last.calls = << >>
        /\ TurnReturned =>
              /\ last.final.response_text.kind = "reply"
              /\ last.final.response_text.to = last.utterance
        /\ \A k \in ReturnedKeys \ {"messages"} : After[k] = last.pre[k]

C35_Witness ==
    /\ FellBack
    /\ TurnReturned
    /\ last.pre.design_version = 1
    /\ last.pre.linear_meters = Some(300)
    /\ last.final.response_text.kind = "reply"
    /\ last.final.design_version = 1

\* The summed length, in centimetres, of the modules a specification
\* allocates.
AllocatedCm(specs) ==
    SinkLen * specs.sink
    + ApplianceLen * (specs.cooktop + specs.fridge)
    + Storage60Len * specs.storage_60
    + Storage40Len * specs.storage_40

(* C38: module packing never over-allocates, lengths in whole centimetres: *)
(* for every non-negative linear size the summed length of the allocated   *)
(* modules is at most the linear size, the unallocated residual is less    *)
(* than 40 cm, and at most one storage-40 module is allocated.             *)
C38_PackingFillsTheWall ==
    last.outcome = "specified" =>
        /\ AllocatedCm(last.specs) <= last.linear
        /\ last.linear - AllocatedCm(last.specs) < Storage40Len
        /\ last.specs.storage_40 <= 1

----------------------------------------------------------------------------
(* The chat handlers over the database: one conversation, the requests of  *)
(* its owner and of another user, the rows the handlers commit and the     *)
(* conversation title.  Here cache and saved are kept per user (the state  *)
(* key and the agent are the user's) and last holds the handler            *)
(* invocations and the rows.                                               *)

Owner == "owner"
Users == {Owner, "other"}

\* The classifier records of the requests: a size with the request for a
\* design, or a shape.
StoreAnalyses ==
    { MkAnalysis([Blank EXCEPT !.action = Some("generate"),
                               !.linear_meters = Some(300)], AnalysisKeys),
      MkAnalysis([Blank EXCEPT !.action = Some("question"),
                               !.shape = Some("L")], AnalysisKeys) }

\* A handler invocation that has not started.
NotArrived ==
    [ pc |-> "none", user |-> Owner, path |-> "http", utterance |-> 0,
      analysis |-> NoAnalysis, existing |-> None, result |-> None,
      max_version |-> None ]

\* Conversation.title as create_conversation stores it.
NewTitle == [kind |-> "new"]

\* The title chat() composes from the state: style, shape and size.
DesignTitle(state) ==
    [ kind |-> "design", style |-> state.style, shape |-> state.shape,
      linear_m |-> state.linear_meters ]

\* A title the user sends to update_conversation.
UserTitle == [kind |-> "user"]

StoreInit ==
    /\ cache = [u \in Users |-> None]
    /\ saved = [u \in Users |-> NoCheckpoint]
    /\ turns = 0
    /\ last = [ handlers |-> [r \in Requests |-> NotArrived],
                messages |-> {}, iterations |-> << >>, title |-> NewTitle ]

\* Variant of GetConversation: the row is looked up by its id alone.
GetConversationById(user) == TRUE

\* get_conversation(db, conversation_id, user_id): the conversation row is
\* found when its user_id is the caller's.
GetConversation(user) == user = Owner

\* The handler of r moves on with the fields of upd replaced.
Step(r, upd) ==
    [last.handlers EXCEPT ![r] =
        [k \in DOMAIN @ |-> IF k \in DOMAIN upd THEN upd[k] ELSE @[k]]]

\* A request naming the conversation arrives, authenticated as one of the
\* users, on one of the entry paths.  The handler looks the conversation
\* up for that user: when there is none it answers 404 (closes the socket
\* with 4004); otherwise it commits the user message.
Arrive(r) ==
    /\ last.handlers[r].pc = "none"
    /\ \E user \in Users, path \in EntryPaths, a \in StoreAnalyses :
         LET upd == [ user |-> user, path |-> path, utterance |-> turns + 1,
                      analysis |-> a ]
         IN  IF GetConversation(user)
             THEN last' = [last EXCEPT
                    !.handlers = Step(r, upd @@ [pc |-> "read"]),
                    !.messages = @ \cup {[role |-> "user", request |-> r]}]
             ELSE last' = [last EXCEPT
                    !.handlers = Step(r, upd @@ [pc |-> "rejected"])]
    /\ turns' = turns + 1
    /\ UNCHANGED <<cache, saved>>

\* existing_state = redis_client.get(agent_state:{user}:{conversation})
ReadKey(r) ==
    /\ last.handlers[r].pc = "read"
    /\ last' = [last EXCEPT !.handlers =
                  Step(r, [ pc |-> "run",
                            existing |-> cache[last.handlers[r].user] ])]
    /\ UNCHANGED <<cache, saved, turns>>

\* agent.run(...) on the user's agent: when it raises, the handler answers
\* with the error and nothing more is done for the request.
RunTurn(r) ==
    /\ last.handlers[r].pc = "run"
    /\ LET req == last.handlers[r]
           ch0 == InputChannels(req.existing, saved[req.user], req.utterance)
           ch1 == Apply(ch0, AnalyzeNode(ch0, req.analysis))
       IN  \E ans \in ServiceAnswers(RouteAction(ch1), ch1) :
              \E t \in {Run(req.existing, saved[req.user], req.utterance,
                           TRUE, TRUE, req.analysis, ans)} :
                  /\ saved' = [saved EXCEPT ![req.user] =
                                 [ messages |-> t.final.messages,
                                   error |-> t.final.error ]]
                  /\ last' = [last EXCEPT !.handlers =
                        IF t.outcome = "ok"
                        THEN Step(r,
                               [ pc |-> IF req.path = "http" THEN "record"
                                        ELSE "send",
                                 result |->
                                    Some([ state |-> ReturnedState(t.final),
                                           artifacts |-> t.final.artifacts ])])
                        ELSE Step(r, [pc |-> "done"])]
    /\ UNCHANGED <<cache, turns>>

\* chat(): the assistant message and the artifacts of the result are
\* committed; save_design_iteration follows when the state has a current
\* image.
StoreReply(r) ==
    /\ last.handlers[r].pc = "record"
    /\ last' = [last EXCEPT
          !.handlers =
             Step(r, [pc |-> IF Truthy("current_image",
                                   last.handlers[r].result[1].state.current_image)
                             THEN "iterate" ELSE "write"]),
          !.messages = @ \cup {[role |-> "assistant", request |-> r]}]
    /\ UNCHANGED <<cache, saved, turns>>

\* The largest of a sequence of versions; SQL max gives NULL on no rows.
MaxVersion(versions) ==
    IF versions = << >> THEN None
    ELSE Some(CHOOSE v \in {versions[i] : i \in 1..Len(versions)} :
                \A i \in 1..Len(versions) : versions[i] <= v)

\* save_design_iteration, first await: max_version = max(version) or 0.
ReadMaxVersion(r) ==
    /\ last.handlers[r].pc = "iterate"
    /\ last' = [last EXCEPT !.handlers =
          Step(r, [ pc |-> "insert",
                    max_version |->
                       IF MaxVersion(last.iterations) = None THEN Some(0)
                       ELSE MaxVersion(last.iterations) ])]
    /\ UNCHANGED <<cache, saved, turns>>

\* save_design_iteration, second await: the row with version
\* max_version + 1 is committed.
InsertIteration(r) ==
    /\ last.handlers[r].pc = "insert"
    /\ last' = [last EXCEPT
          !.handlers = Step(r, [pc |-> "write"]),
          !.iterations =
             Append(@, last.handlers[r].max_version[1] + 1)]
    /\ UNCHANGED <<cache, saved, turns>>

\* websocket_chat(): the text and the artifacts are sent to the client and
\* the assistant message is committed; no artifact or iteration is stored.
SendReply(r) ==
    /\ last.handlers[r].pc = "send"
    /\ last' = [last EXCEPT
          !.handlers = Step(r, [pc |-> "write"]),
          !.messages = @ \cup {[role |-> "assistant", request |-> r]}]
    /\ UNCHANGED <<cache, saved, turns>>

\* redis_client.set(agent_state:{user}:{conversation}, state)
WriteKey(r) ==
    /\ last.handlers[r].pc = "write"
    /\ cache' = [cache EXCEPT ![last.handlers[r].user] =
                    Some(last.handlers[r].result[1].state)]
    /\ last' = [last EXCEPT !.handlers = Step(r, [pc |-> "written"])]
    /\ UNCHANGED <<saved, turns>>

\* The rest of the handler: chat() sets the conversation title when the
\* state's design_version is 1 and returns; websocket_chat() sends "done".
Return(r) ==
    /\ last.handlers[r].pc = "written"
    /\ LET req == last.handlers[r]
       IN  last' = [last EXCEPT
              !.handlers = Step(r, [pc |-> "done"]),
              !.title = IF /\ req.path = "http"
                           /\ req.result[1].state.design_version = 1
                        THEN DesignTitle(req.result[1].state)
                        ELSE @]
    /\ UNCHANGED <<cache, saved, turns>>

\* update_conversation (PATCH): a user sends a title; 404 when the
\* conversation is not the caller's.
UpdateConversation ==
    /\ \E user \in Users :
          last' = [last EXCEPT !.title =
                     IF GetConversation(user) THEN UserTitle ELSE @]
    /\ UNCHANGED <<cache, saved, turns>>

StoreNext ==
    \/ \E r \in Requests :
          \/ Arrive(r)
          \/ ReadKey(r)
          \/ RunTurn(r)
          \/ StoreReply(r)
          \/ ReadMaxVersion(r)
          \/ InsertIteration(r)
          \/ SendReply(r)
          \/ WriteKey(r)
          \/ Return(r)
    \/ UpdateConversation

StoreSpec == StoreInit /\ [][StoreNext]_vars

\* The handler of r has committed a design iteration row.
Iterated(r) ==
    /\ last.handlers[r].max_version # None
    /\ last.handlers[r].pc \in {"write", "written", "done"}

\* No handler is between its arrival and its end.
Quiescent ==
    \A r \in Requests : last.handlers[r].pc \in {"none", "rejected", "done"}

\* Every request so far came from the owner over HTTP.
OnlyHttp ==
    \A r \in Requests :
        last.handlers[r].pc # "none" =>
            last.handlers[r].path = "http" /\ last.handlers[r].user = Owner

\* The agent's design_version as the owner's state key holds it.
StoredDesignVersion ==
    IF cache[Owner] = None THEN 0 ELSE cache[Owner][1].design_version

(* C33: on the HTTP chat path a design iteration row is recorded only in   *)
(* a turn that produced a new image, so after any sequence of turns the    *)
(* number of stored design iterations, and the highest stored iteration    *)
(* version, equal the agent's design_version.                              *)
C33_IterationPerNewImage ==
    /\ OnlyHttp =>
          \A r \in Requests :
              Iterated(r) =>
                  ImagesOf(last.handlers[r].result[1].artifacts) # {}
    /\ (Quiescent /\ OnlyHttp) =>
          /\ Len(last.iterations) = StoredDesignVersion
          /\ MaxVersion(last.iterations) =
                IF StoredDesignVersion = 0 THEN None
                ELSE Some(StoredDesignVersion)

(* C39: design iteration versions within one conversation are unique and   *)
(* consecutive from 1, also when two chat requests for the conversation    *)
(* run save_design_iteration concurrently.                                 *)
C39_VersionsConsecutive ==
    \A i \in 1..Len(last.iterations) : last.iterations[i] = i

\* The turn of r produced a new design.
NewDesign(r) ==
    /\ last.handlers[r].result # None
    /\ ImagesOf(last.handlers[r].result[1].artifacts) # {}

(* C36: the automatic conversation title is written only by the turn in    *)
(* which design_version first becomes 1: a title the user set through      *)
(* update_conversation is left unchanged by every later chat turn that     *)
(* does not produce a new design.                                          *)
C36_TitleWrittenByFirstDesign ==
    [][ \A r \in Requests :
          (last.handlers[r].pc = "written" /\ last'.handlers[r].pc = "done"
             /\ ~NewDesign(r)) =>
              last'.title = last.title ]_vars

\* The handler of r has not gone past the lookup of the conversation.
Rejected(r) ==
    /\ last.handlers[r].pc = "rejected"
    /\ last.handlers[r].existing = None
    /\ last.handlers[r].result = None
    /\ \A m \in last.messages : m.request # r

(* C37: the cached agent state of a conversation is read and written only  *)
(* by requests authenticated as the user who owns it: on both chat paths   *)
(* a request naming a conversation of another user is rejected before any  *)
(* message is stored, the agent is run, or the state key is touched.       *)
C37_OnlyOwnerReachesState ==
    /\ \A r \in Requests :
          (last.handlers[r].pc # "none" /\ last.handlers[r].user # Owner) =>
              Rejected(r)
    /\ \A u \in Users \ {Owner} :
          cache[u] = None /\ saved[u] = NoCheckpoint

C37_Witness ==
    /\ last.handlers["r1"].user = "other"
    /\ last.handlers["r1"].path = "ws"
    /\ Rejected("r1")
    /\ last.handlers["r2"].user = Owner
    /\ last.handlers["r2"].pc = "done"
    /\ last.handlers["r2"].utterance = 2
    /\ cache[Owner] # None
    /\ cache["other"] = None

====
